---- MODULE Spec2Model ----
(***************************************************************************)
(* A state-machine model of safe-web-tester: runner.js (argument and       *)
(* allow-list validation, the main async run, report assembly, cleanup),   *)
(* functionalityChecker.js (checkLinks, checkButtons),                     *)
(* responsivenessChecker.js (checkResponsiveness) and                      *)
(* modules/securityAudit.js (runSecurityAudit).                            *)
(*                                                                         *)
(* JavaScript values that may be null are modelled as options: Null is    *)
(* the empty tuple and Some(v) the one-element tuple holding v.  Strings   *)
(* the code inspects (host names, hrefs, error messages) are sequences of  *)
(* characters or tokens, so that replace/startsWith/includes are computed. *)
(* The browser, the site under test and the file system are the           *)
(* environment: the site is fixed when the run starts, and every await     *)
(* that can reject has a failing action, which spends one unit of          *)
(* faultsLeft.                                                             *)
(***************************************************************************)
EXTENDS Integers, Sequences, FiniteSets, TLC

VARIABLES
    argv,                   \* process.argv.slice(2): [url, label]
    site,                   \* what the site under test serves
    faultsLeft,             \* failures the environment may still raise
    pc,                     \* position of the main flow of runner.js
    exitCode,               \* -1 while running, else the process exit status
    browser,                \* "none" | "open" | "closed"
    closeCount,             \* number of browser.close() calls
    status, title, error,   \* runner.js:203-205
    brokenLinks, disabledButtons,           \* runner.js:206-207
    responsivenessResults, securityAudit,   \* runner.js:208-209
    started,                \* the checkers that have been called
    linksPc, externalLinks, probes, linksResult,    \* checkLinks
    buttonsPc, buttonsResult,                       \* checkButtons
    viewport, navigations,  \* the page: viewport size, page.goto calls made
    deviceIdx, respResults, \* checkResponsiveness: loop index, results
    auditResults, adminIdx, \* runSecurityAudit: results, commonPaths index
    adminProbes,            \* the admin-path requests made, and their answers
    report, reportCount,    \* the report object, and how many were assembled
    reportFile, displayed,  \* report.json on disk, the summary printed
    saveLogged              \* whether 'Error saving report' was printed

inputVars  == <<argv, site>>
procVars   == <<exitCode, browser, closeCount>>
runVars    == <<status, title, error, brokenLinks, disabledButtons,
                responsivenessResults, securityAudit>>
linkVars   == <<linksPc, externalLinks, probes, linksResult>>
buttonVars == <<buttonsPc, buttonsResult>>
pageVars   == <<viewport, navigations>>
respVars   == <<deviceIdx, respResults>>
auditVars  == <<auditResults, adminIdx, adminProbes>>
outVars    == <<report, reportCount, reportFile, displayed, saveLogged>>
vars == <<inputVars, faultsLeft, pc, procVars, runVars, started, linkVars,
          buttonVars, pageVars, respVars, auditVars, outVars>>

----------------------------------------------------------------------------
(* Bounds of the model *)

MaxFaults == 2      \* failures the environment raises in one whole run
MaxHostLen == 5     \* longest host name tried, in characters
MaxLinks == 2       \* most anchors on a page

----------------------------------------------------------------------------
(* JavaScript values *)

Null == <<>>
Some(v) == <<v>>
IsNull(o) == o = <<>>
Val(o) == o[1]

\* s.indexOf(pat) + 1: the first position where pat occurs in s, 0 if none
IndexOf(s, pat) ==
    LET hits == {i \in 1..(Len(s) - Len(pat) + 1) :
                    SubSeq(s, i, i + Len(pat) - 1) = pat}
    IN  IF hits = {} THEN 0 ELSE CHOOSE i \in hits : \A j \in hits : i <= j

\* s.includes(pat)
Includes(s, pat) == IndexOf(s, pat) > 0

\* s.startsWith(pat)
StartsWith(s, pat) == Len(s) >= Len(pat) /\ SubSeq(s, 1, Len(pat)) = pat

\* s.replace(pat, rep) with a string pattern: only the first occurrence
ReplaceFirst(s, pat, rep) ==
    LET i == IndexOf(s, pat)
    IN  IF i = 0 THEN s
        ELSE SubSeq(s, 1, i - 1) \o rep \o SubSeq(s, i + Len(pat), Len(s))

\* arr.filter(x => x !== null) over an array of options
RECURSIVE FilterNonNull(_)
FilterNonNull(arr) ==
    IF arr = <<>> THEN <<>>
    ELSE IF IsNull(Head(arr)) THEN FilterNonNull(Tail(arr))
         ELSE <<Val(Head(arr))>> \o FilterNonNull(Tail(arr))

\* String(n) for n >= 0, as a sequence of digit characters
Digit(d) == CASE d = 0 -> "0" [] d = 1 -> "1" [] d = 2 -> "2" [] d = 3 -> "3"
              [] d = 4 -> "4" [] d = 5 -> "5" [] d = 6 -> "6" [] d = 7 -> "7"
              [] d = 8 -> "8" [] d = 9 -> "9"
RECURSIVE Decimal(_)
Decimal(n) == IF n < 10 THEN <<Digit(n)>>
              ELSE Decimal(n \div 10) \o <<Digit(n % 10)>>

----------------------------------------------------------------------------
(* runner.js: arguments, output directories, allow-list *)

HostChars == {"w", ".", "a"}
Hosts == UNION {[1..n -> HostChars] : n \in 1..MaxHostLen}

\* The URL argument.  given: argv holds it; parsable: new URL(url) succeeds,
\* and then protocol and hostname are what the parser returns.
MissingUrl == [given |-> FALSE, parsable |-> FALSE, protocol |-> "", hostname |-> <<>>]
BadUrl     == [given |-> TRUE, parsable |-> FALSE, protocol |-> "", hostname |-> <<>>]
GoodUrl(p, h) == [given |-> TRUE, parsable |-> TRUE, protocol |-> p, hostname |-> h]
Protocols == {"http:", "https:"}
Urls == {MissingUrl, BadUrl} \cup {GoodUrl(p, h) : p \in Protocols, h \in Hosts}

\* The label argument: missing, valid, or holding a character outside
\* [a-zA-Z0-9-_]
LabelChars == {"a", "-", "_", "9"}
Labels == {<<>>, <<"a">>, <<"/">>}
LabelOk(label) == Len(label) > 0 /\ \A i \in 1..Len(label) : label[i] \in LabelChars

\* config.allowedDomains
allowedDomains == {<<"a">>}

WwwDot == <<"w", "w", "w", ".">>

\* runner.js:39-45
extractDomain(url) ==
    IF url.parsable THEN Some(ReplaceFirst(url.hostname, WwwDot, <<>>)) ELSE Null

\* config.allowedDomains.includes(domain): a null domain is in no list
DomainAllowed(domain) == ~IsNull(domain) /\ Val(domain) \in allowedDomains

----------------------------------------------------------------------------
(* The site under test *)

\* An anchor: its href attribute as written in the page (a token sequence
\* whose first token is the scheme when the href is absolute), its text, and
\* the status its target answers with.
Anchor(attr, answer) == [attr |-> attr, text |-> "link", answer |-> answer]
AbsBroken == Anchor(<<"https://", "other", "/gone">>, 400)
AbsFine   == Anchor(<<"http://", "other", "/ok">>, 399)
RelBroken == Anchor(<<"/missing">>, 404)
MailTo    == Anchor(<<"mailto:", "me">>, 200)
AnchorKinds == {AbsBroken, AbsFine, RelBroken, MailTo}
AnchorSeqs == UNION {[1..n -> AnchorKinds] : n \in 0..MaxLinks}

\* A button or input element of the page
Element(tag, type, text, disabled) ==
    [tag |-> tag, type |-> type, text |-> text, disabled |-> disabled]

\* A cookie of the browser context
Cookie(name, secure, httpOnly) == [name |-> name, secure |-> secure, httpOnly |-> httpOnly]

\* runSecurityAudit's importantHeaders, in insertion order (securityAudit.js:30-37)
Header(name, description) == [name |-> name, description |-> description]
importantHeaders ==
    << Header("strict-transport-security", "Helps prevent downgrade attacks"),
       Header("content-security-policy", "Protects against cross-site scripting"),
       Header("x-frame-options", "Prevents clickjacking"),
       Header("x-content-type-options", "Prevents MIME-type sniffing"),
       Header("referrer-policy", "Controls what referrer info is sent"),
       Header("permissions-policy", "Controls use of browser features") >>
ImportantNames == {importantHeaders[i].name : i \in 1..Len(importantHeaders)}
HeaderNames == ImportantNames \cup {"content-type"}

\* runSecurityAudit's commonPaths (securityAudit.js:68)
commonPaths == << "/admin", "/login", "/dashboard", "/wp-admin" >>

BaseSite ==
    [ status       |-> 200,
      title        |-> "Home",
      anchors      |-> <<AbsBroken, AbsFine>>,
      buttons      |-> << Element("button", "", "Go", FALSE),
                          Element("input", "submit", "Send", TRUE) >>,
      contentWidth |-> 1000,
      minFontSize  |-> 10,
      headers      |-> {"content-type", "x-frame-options"},
      generator    |-> "WordPress 6.0",
      cookies      |-> << Cookie("sid", TRUE, TRUE), Cookie("pref", FALSE, TRUE) >>,
      admin        |-> << 404, 200, 302, 403 >> ]

----------------------------------------------------------------------------
(* Failure messages (error.message of what the environment throws) *)

GotoMsg      == "page.goto: Timeout 15000ms exceeded"
WaitLoadMsg  == "page.waitForLoadState: Target closed"
TitleMsg     == "page.title: Execution context was destroyed"
MkdirMsg     == "EACCES: permission denied, mkdir"
AuditGotoMsg == "page.goto: net::ERR_CONNECTION_RESET"
CookiesMsg   == "browserContext.cookies: Target closed"
MainLoadMsgs == {GotoMsg, WaitLoadMsg, TitleMsg}

CanFail == faultsLeft > 0
SpendFault == faultsLeft' = faultsLeft - 1

----------------------------------------------------------------------------
(* runner.js, steps 1-4: validation before any browser work *)

Exit(code) == pc' = "exited" /\ exitCode' = code

\* runner.js:11-23
ValidateArgs ==
    /\ pc = "args"
    /\ IF ~argv.url.given \/ argv.label = <<>> THEN Exit(1)
       ELSE IF ~LabelOk(argv.label) THEN Exit(1)
       ELSE pc' = "mkdirs" /\ UNCHANGED exitCode
    /\ UNCHANGED <<inputVars, faultsLeft, browser, closeCount, runVars, started,
                   linkVars, buttonVars, pageVars, respVars, auditVars, outVars>>

\* runner.js:30-32
MakeDirs ==
    /\ pc = "mkdirs"
    /\ pc' = "domain"
    /\ UNCHANGED <<inputVars, faultsLeft, procVars, runVars, started, linkVars,
                   buttonVars, pageVars, respVars, auditVars, outVars>>

\* runner.js:33-36
MakeDirsFail ==
    /\ pc = "mkdirs"
    /\ CanFail /\ SpendFault
    /\ Exit(1)
    /\ UNCHANGED <<inputVars, browser, closeCount, runVars, started, linkVars,
                   buttonVars, pageVars, respVars, auditVars, outVars>>

\* runner.js:189-195
CheckDomain ==
    /\ pc = "domain"
    /\ IF DomainAllowed(extractDomain(argv.url))
       THEN pc' = "launch" /\ UNCHANGED exitCode
       ELSE Exit(1)
    /\ UNCHANGED <<inputVars, faultsLeft, browser, closeCount, runVars, started,
                   linkVars, buttonVars, pageVars, respVars, auditVars, outVars>>

----------------------------------------------------------------------------
(* runner.js, step 5: the async run *)

\* An await outside the try block rejects: the promise of the async function
\* is unhandled and node ends the process with status 1.
Crash == pc' = "crashed" /\ exitCode' = 1

\* runner.js:199
LaunchBrowser ==
    /\ pc = "launch"
    /\ browser' = "open"
    /\ pc' = "newPage"
    /\ UNCHANGED <<inputVars, faultsLeft, exitCode, closeCount, runVars, started,
                   linkVars, buttonVars, pageVars, respVars, auditVars, outVars>>

LaunchBrowserFail ==
    /\ pc = "launch"
    /\ CanFail /\ SpendFault
    /\ Crash
    /\ UNCHANGED <<inputVars, browser, closeCount, runVars, started, linkVars,
                   buttonVars, pageVars, respVars, auditVars, outVars>>

\* runner.js:200-209: the page, and the run's variables at their initial values
NewPage ==
    /\ pc = "newPage"
    /\ status' = Null /\ title' = "" /\ error' = Null
    /\ brokenLinks' = Some(<<>>) /\ disabledButtons' = Some(<<>>)
    /\ responsivenessResults' = Null /\ securityAudit' = Null
    /\ pc' = "goto"
    /\ UNCHANGED <<inputVars, faultsLeft, procVars, started, linkVars, buttonVars,
                   pageVars, respVars, auditVars, outVars>>

NewPageFail ==
    /\ pc = "newPage"
    /\ CanFail /\ SpendFault
    /\ Crash
    /\ UNCHANGED <<inputVars, browser, closeCount, runVars, started, linkVars,
                   buttonVars, pageVars, respVars, auditVars, outVars>>

\* What the catch of runner.js:231-233 does with a failure thrown in the try
Caught(msg) == error' = Some(msg) /\ pc' = "assemble"

\* runner.js:212-213
MainGoto ==
    /\ pc = "goto"
    /\ navigations' = navigations + 1
    /\ status' = Some(site.status)
    /\ pc' = "waitLoad"
    /\ UNCHANGED <<inputVars, faultsLeft, procVars, title, error, brokenLinks,
                   disabledButtons, responsivenessResults, securityAudit, started,
                   linkVars, buttonVars, viewport, respVars, auditVars, outVars>>

\* A faulty MainGotoFail, which records the failure and goes on with the
\* run; C3 must tell it from the code's
MainGotoFail_Continues ==
    /\ pc = "goto"
    /\ CanFail /\ SpendFault
    /\ navigations' = navigations + 1
    /\ error' = Some(GotoMsg)
    /\ pc' = "waitLoad"
    /\ UNCHANGED <<inputVars, procVars, status, title, brokenLinks,
                   disabledButtons, responsivenessResults, securityAudit, started,
                   linkVars, buttonVars, viewport, respVars, auditVars, outVars>>

MainGotoFail ==
    /\ pc = "goto"
    /\ CanFail /\ SpendFault
    /\ navigations' = navigations + 1
    /\ Caught(GotoMsg)
    /\ UNCHANGED <<inputVars, procVars, status, title, brokenLinks,
                   disabledButtons, responsivenessResults, securityAudit, started,
                   linkVars, buttonVars, viewport, respVars, auditVars, outVars>>

\* runner.js:214
WaitLoad ==
    /\ pc = "waitLoad"
    /\ pc' = "title"
    /\ UNCHANGED <<inputVars, faultsLeft, procVars, runVars, started, linkVars,
                   buttonVars, pageVars, respVars, auditVars, outVars>>

WaitLoadFail ==
    /\ pc = "waitLoad"
    /\ CanFail /\ SpendFault
    /\ Caught(WaitLoadMsg)
    /\ UNCHANGED <<inputVars, procVars, status, title, brokenLinks,
                   disabledButtons, responsivenessResults, securityAudit, started,
                   linkVars, buttonVars, pageVars, respVars, auditVars, outVars>>

\* runner.js:215
ReadTitle ==
    /\ pc = "title"
    /\ title' = site.title
    /\ pc' = "functionality"
    /\ UNCHANGED <<inputVars, faultsLeft, procVars, status, error, brokenLinks,
                   disabledButtons, responsivenessResults, securityAudit, started,
                   linkVars, buttonVars, pageVars, respVars, auditVars, outVars>>

ReadTitleFail ==
    /\ pc = "title"
    /\ CanFail /\ SpendFault
    /\ Caught(TitleMsg)
    /\ UNCHANGED <<inputVars, procVars, status, title, brokenLinks,
                   disabledButtons, responsivenessResults, securityAudit, started,
                   linkVars, buttonVars, pageVars, respVars, auditVars, outVars>>

----------------------------------------------------------------------------
(* functionalityChecker.js: checkLinks *)

SchemeToken(protocol) == IF protocol = "https:" THEN "https://" ELSE "http://"
HasScheme(attr) == Len(attr) > 0 /\ attr[1] \in {"http://", "https://", "mailto:"}

\* el.href: the DOM property is the href attribute resolved against the
\* document's URL, so a relative attribute comes back absolute
ResolveHref(attr, base) ==
    IF HasScheme(attr) THEN attr ELSE <<SchemeToken(base.protocol), "site">> \o attr

\* functionalityChecker.js:17-21, the object built for one anchor
LinkOf(a, base) ==
    LET href == ResolveHref(a.attr, base)
    IN  [ href |-> href,
          text |-> a.text,
          isExternal |-> StartsWith(href, <<"http://">>) \/ StartsWith(href, <<"https://">>) ]

\* functionalityChecker.js:16-27
PageLinks(s, base) == [i \in 1..Len(s.anchors) |-> LinkOf(s.anchors[i], base)]
IsExternalLink(link) == link.isExternal
ExternalLinksOf(s, base) == SelectSeq(PageLinks(s, base), IsExternalLink)

\* The status the target of href answers with (the same for GET and HEAD)
AnswerOf(s, base, href) ==
    LET i == CHOOSE i \in 1..Len(s.anchors) : ResolveHref(s.anchors[i].attr, base) = href
    IN  s.anchors[i].answer

\* response.statusText()
StatusText(st) == IF st >= 400 THEN "Error" ELSE "OK"

\* error.message of a failed request, as tokens
TimeoutErr  == <<"Request", "timeout", "10000ms">>
RefusedErr  == <<"connect", "ECONNREFUSED", "127.0.0.1:80">>
NotFoundErr == <<"getaddrinfo", "ENOTFOUND", "other">>
ResetErr    == <<"socket", "hang", "up">>
RequestErrs == {TimeoutErr, RefusedErr, NotFoundErr, ResetErr}
EvalErr     == <<"page.$$eval:", "Execution", "context", "was", "destroyed">>

\* functionalityChecker.js:66-73
ErrorMessage(msg) ==
    IF Includes(msg, <<"timeout">>) THEN <<"Request timed out after 10 seconds">>
    ELSE IF Includes(msg, <<"ECONNREFUSED">>) THEN <<"Connection refused">>
    ELSE IF Includes(msg, <<"ENOTFOUND">>) THEN <<"Domain not found">>
    ELSE msg

\* A status is a number or the string 'failed'
NumStatus(n) == [num |-> n]
FailedStatus == [str |-> "failed"]

\* A faulty ClassifyResponse, which takes 400 itself for a success; C8 must
\* tell it from the code's
ClassifyResponse_Above400(link, st) ==
    IF st > 400
    THEN Some([ href |-> link.href, text |-> link.text, status |-> NumStatus(st),
                error |-> <<"HTTP", " ">> \o Decimal(st) \o <<" ", "-", " ", StatusText(st)>> ])
    ELSE Null

\* functionalityChecker.js:52-63: what the probe of link returns for a response
ClassifyResponse(link, st) ==
    IF st >= 400
    THEN Some([ href |-> link.href, text |-> link.text, status |-> NumStatus(st),
                error |-> <<"HTTP", " ">> \o Decimal(st) \o <<" ", "-", " ", StatusText(st)>> ])
    ELSE Null

\* functionalityChecker.js:64-82: what the probe returns when the request failed
ClassifyFailure(link, msg) ==
    Some([ href |-> link.href, text |-> link.text, status |-> FailedStatus,
           error |-> ErrorMessage(msg) ])

\* A faulty GeneralError, a catch that returns nothing; C2 must tell it from
\* the code's
GeneralError_ReturnsNull(msg) == Null

\* functionalityChecker.js:90-98
GeneralError(msg) ==
    Some(<< [ href |-> <<"general_error">>, text |-> "", status |-> FailedStatus,
              error |-> msg ] >>)

\* One element of the Promise.all of functionalityChecker.js:30: the requests
\* made for the link (get, head: "none" | "inflight" | "responded" |
\* "raised"), the response obtained, and what the callback returned.
NewProbe == [get |-> "inflight", head |-> "none", response |-> Null,
             settled |-> FALSE, result |-> Null]
ProbeInFlight(p) == p.get = "inflight" \/ p.head = "inflight"

\* The probe once a response with status st came back, to the GET or, when the
\* GET had raised, to the HEAD
Answered(viaHead, link, st) ==
    [get |-> IF viaHead THEN "raised" ELSE "responded",
     head |-> IF viaHead THEN "responded" ELSE "none",
     response |-> Some(st), settled |-> TRUE,
     result |-> ClassifyResponse(link, st)]

\* The probe once both requests have raised, the HEAD with message msg
Unanswered(link, msg) ==
    [get |-> "raised", head |-> "raised", response |-> Null, settled |-> TRUE,
     result |-> ClassifyFailure(link, msg)]

\* Promise.all(externalLinks.map(...)) has resolved (functionalityChecker.js:30)
AllProbesSettled == \A i \in 1..Len(probes) : probes[i].settled

\* functionalityChecker.js:87: the entries among the callbacks' results
BrokenAmong(ps) == FilterNonNull([i \in 1..Len(ps) |-> ps[i].result])

\* runner.js:219-222: both checkers are called, each runs to its first await
StartFunctionality ==
    /\ pc = "functionality"
    /\ started' = started \cup {"checkLinks", "checkButtons"}
    /\ linksPc' = "eval" /\ buttonsPc' = "eval"
    /\ pc' = "awaitChecks"
    /\ UNCHANGED <<inputVars, faultsLeft, procVars, runVars, externalLinks, probes,
                   linksResult, buttonsResult, pageVars, respVars, auditVars, outVars>>

\* functionalityChecker.js:16-36: the anchors are read, the external ones kept
\* and one GET issued for each
LinksEval ==
    /\ linksPc = "eval"
    /\ externalLinks' = ExternalLinksOf(site, argv.url)
    /\ probes' = [i \in 1..Len(externalLinks') |-> NewProbe]
    /\ linksPc' = "probing"
    /\ UNCHANGED <<inputVars, faultsLeft, pc, procVars, runVars, started,
                   linksResult, buttonVars, pageVars, respVars, auditVars, outVars>>

\* functionalityChecker.js:90-98: page.$$eval rejects
LinksEvalFail ==
    /\ linksPc = "eval"
    /\ CanFail /\ SpendFault
    /\ linksResult' = GeneralError(EvalErr)
    /\ linksPc' = "done"
    /\ UNCHANGED <<inputVars, pc, procVars, runVars, started, externalLinks,
                   probes, buttonVars, pageVars, respVars, auditVars, outVars>>

\* functionalityChecker.js:36-41, 52-63: the GET is answered
GetRespond(i) ==
    /\ linksPc = "probing" /\ probes[i].get = "inflight"
    /\ probes' = [probes EXCEPT ![i] = Answered(FALSE, externalLinks[i],
                       AnswerOf(site, argv.url, externalLinks[i].href))]
    /\ UNCHANGED <<inputVars, faultsLeft, pc, procVars, runVars, started, linksPc,
                   externalLinks, linksResult, buttonVars, pageVars, respVars,
                   auditVars, outVars>>

\* functionalityChecker.js:42-49: the GET rejects and a HEAD is issued
GetRaise(i) ==
    /\ linksPc = "probing" /\ probes[i].get = "inflight"
    /\ CanFail /\ SpendFault
    /\ probes' = [probes EXCEPT ![i].get = "raised", ![i].head = "inflight"]
    /\ UNCHANGED <<inputVars, pc, procVars, runVars, started, linksPc,
                   externalLinks, linksResult, buttonVars, pageVars, respVars,
                   auditVars, outVars>>

\* functionalityChecker.js:44-49, 52-63: the HEAD is answered
HeadRespond(i) ==
    /\ linksPc = "probing" /\ probes[i].head = "inflight"
    /\ probes' = [probes EXCEPT ![i] = Answered(TRUE, externalLinks[i],
                       AnswerOf(site, argv.url, externalLinks[i].href))]
    /\ UNCHANGED <<inputVars, faultsLeft, pc, procVars, runVars, started, linksPc,
                   externalLinks, linksResult, buttonVars, pageVars, respVars,
                   auditVars, outVars>>

\* functionalityChecker.js:64-82: the HEAD rejects too
HeadRaise(i, msg) ==
    /\ linksPc = "probing" /\ probes[i].head = "inflight"
    /\ CanFail /\ SpendFault
    /\ probes' = [probes EXCEPT ![i] = Unanswered(externalLinks[i], msg)]
    /\ UNCHANGED <<inputVars, pc, procVars, runVars, started, linksPc,
                   externalLinks, linksResult, buttonVars, pageVars, respVars,
                   auditVars, outVars>>

\* functionalityChecker.js:86-89
LinksReturn ==
    /\ linksPc = "probing"
    /\ AllProbesSettled
    /\ linksResult' = Some(BrokenAmong(probes))
    /\ linksPc' = "done"
    /\ UNCHANGED <<inputVars, faultsLeft, pc, procVars, runVars, started,
                   externalLinks, probes, buttonVars, pageVars, respVars, auditVars,
                   outVars>>

----------------------------------------------------------------------------
(* functionalityChecker.js: checkButtons *)

\* functionalityChecker.js:115-120
getButtonType(el) ==
    IF el.tag = "input" THEN (IF el.type # "" THEN el.type ELSE "button") ELSE "button"

\* functionalityChecker.js:122-127
getButtonText(el) ==
    IF el.tag = "input"
    THEN (IF el.text # "" THEN el.text ELSE "Unnamed Input Button")
    ELSE (IF el.text # "" THEN el.text ELSE "Unnamed Button")

IsDisabled(el) == el.disabled

\* functionalityChecker.js:173-181
DisabledEntries(elements) ==
    LET off == SelectSeq(elements, IsDisabled)
    IN  [i \in 1..Len(off) |->
            [text |-> getButtonText(off[i]), type |-> getButtonType(off[i])]]

\* functionalityChecker.js:185-195
ButtonsError(msg) ==
    Some(<< [ text |-> "Error checking buttons", type |-> "unknown",
              location |-> "unknown", error |-> msg ] >>)

\* functionalityChecker.js:114-184
ButtonsEval ==
    /\ buttonsPc = "eval"
    /\ buttonsResult' = Some(DisabledEntries(site.buttons))
    /\ buttonsPc' = "done"
    /\ UNCHANGED <<inputVars, faultsLeft, pc, procVars, runVars, started, linkVars,
                   pageVars, respVars, auditVars, outVars>>

ButtonsEvalFail ==
    /\ buttonsPc = "eval"
    /\ CanFail /\ SpendFault
    /\ buttonsResult' = ButtonsError(EvalErr)
    /\ buttonsPc' = "done"
    /\ UNCHANGED <<inputVars, pc, procVars, runVars, started, linkVars, pageVars,
                   respVars, auditVars, outVars>>

\* A faulty ChecksSettled, which waits for the first of the two checkers
\* only; C4 must tell it from the code's
ChecksSettled_Race == linksPc = "done" \/ buttonsPc = "done"

\* Promise.all([checkLinks(page), checkButtons(page)]) has resolved
ChecksSettled == linksPc = "done" /\ buttonsPc = "done"

\* runner.js:219-222: the destructuring assignment after the await
FunctionalityJoin ==
    /\ pc = "awaitChecks"
    /\ ChecksSettled
    /\ brokenLinks' = linksResult
    /\ disabledButtons' = buttonsResult
    /\ pc' = "responsiveness"
    /\ UNCHANGED <<inputVars, faultsLeft, procVars, status, title, error,
                   responsivenessResults, securityAudit, started, linkVars,
                   buttonVars, pageVars, respVars, auditVars, outVars>>

----------------------------------------------------------------------------
(* responsivenessChecker.js: checkResponsiveness *)

Device(name, width, height, scale, mobile) ==
    [name |-> name, width |-> width, height |-> height,
     deviceScaleFactor |-> scale, isMobile |-> mobile]

\* responsivenessChecker.js:5-48
DEVICE_SIZES ==
    << Device("Mobile Portrait", 390, 844, 2, TRUE),
       Device("Mobile Landscape", 844, 390, 2, TRUE),
       Device("Tablet Portrait", 810, 1080, 2, TRUE),
       Device("Tablet Landscape", 1080, 810, 2, TRUE),
       Device("Laptop", 1366, 768, 1, FALSE),
       Device("Desktop", 1920, 1080, 1, FALSE) >>

\* responsivenessChecker.js:120
MIN_FONT_SIZE == 12

\* The awaits of one loop iteration, in order (responsivenessChecker.js:73-127)
DeviceSteps == <<"setViewportSize", "goto", "screenshot", "title", "evaluate">>
StepIndex(step) == CHOOSE k \in 1..Len(DeviceSteps) : DeviceSteps[k] = step
DeviceErr(step) == <<"page.", step, ":", "failed">>

ViewportOf(device) ==
    [width |-> device.width, height |-> device.height,
     deviceScaleFactor |-> device.deviceScaleFactor, isMobile |-> device.isMobile]

\* responsivenessChecker.js:109-111: scrollWidth > clientWidth
hasHorizontalScrollbar(s, device) == s.contentWidth > device.width

\* responsivenessChecker.js:119-127
hasTinyText(s) == s.minFontSize < MIN_FONT_SIZE

OverflowWarning == <<"Horizontal scrollbar detected - possible responsiveness issue">>
TinyTextWarning == <<"\nSmall text detected - might be hard to read on mobile devices">>

\* responsivenessChecker.js:113-133: metrics.warning, the empty sequence when
\* no warning is set
WarningOf(s, device) ==
    (IF hasHorizontalScrollbar(s, device) THEN OverflowWarning ELSE <<>>)
    \o (IF device.isMobile /\ hasTinyText(s) THEN TinyTextWarning ELSE <<>>)

\* responsivenessChecker.js:93-106, 135: the entry of a device that was tested
Metrics(s, device) ==
    LET base == [ title |-> s.title, url |-> "baseUrl", viewport |-> ViewportOf(device),
                  status |-> s.status, device |-> device.name,
                  screenshotPath |-> <<"screenshots", device.name>>,
                  timestamp |-> "now" ]
        w == WarningOf(s, device)
    IN  IF w = <<>> THEN base
        ELSE [ title |-> base.title, url |-> base.url, viewport |-> base.viewport,
               status |-> base.status, device |-> base.device,
               screenshotPath |-> base.screenshotPath, timestamp |-> base.timestamp,
               warning |-> w ]

\* responsivenessChecker.js:138-150: the entry of a device whose test failed
DeviceFailure(device, msg) ==
    [ device |-> device.name, viewport |-> ViewportOf(device), error |-> msg,
      timestamp |-> "now" ]

\* responsivenessChecker.js:57-66
RespStart ==
    /\ pc = "responsiveness"
    /\ started' = started \cup {"checkResponsiveness"}
    /\ respResults' = <<>> /\ deviceIdx' = 1
    /\ pc' = "devices"
    /\ UNCHANGED <<inputVars, faultsLeft, procVars, runVars, linkVars, buttonVars,
                   pageVars, auditVars, outVars>>

\* responsivenessChecker.js:62: fs.mkdirSync throws, outside any try of the
\* checker, and the catch of runner.js:231 receives it
RespStartFail ==
    /\ pc = "responsiveness"
    /\ CanFail /\ SpendFault
    /\ started' = started \cup {"checkResponsiveness"}
    /\ Caught(MkdirMsg)
    /\ UNCHANGED <<inputVars, procVars, status, title, brokenLinks, disabledButtons,
                   responsivenessResults, securityAudit, linkVars, buttonVars,
                   pageVars, respVars, auditVars, outVars>>

\* responsivenessChecker.js:68-136: one iteration in which every await resolves
TestDevice ==
    /\ pc = "devices" /\ deviceIdx <= Len(DEVICE_SIZES)
    /\ LET device == DEVICE_SIZES[deviceIdx]
       IN  /\ viewport' = [width |-> device.width, height |-> device.height]
           /\ respResults' = Append(respResults, Metrics(site, device))
    /\ navigations' = navigations + 1
    /\ deviceIdx' = deviceIdx + 1
    /\ UNCHANGED <<inputVars, faultsLeft, pc, procVars, runVars, started, linkVars,
                   buttonVars, auditVars, outVars>>

\* A faulty TestDeviceFail, which records the failure and leaves the loop;
\* C5 must tell it from the code's
TestDeviceFail_Break(step) ==
    /\ pc = "devices" /\ deviceIdx <= Len(DEVICE_SIZES)
    /\ CanFail /\ SpendFault
    /\ LET device == DEVICE_SIZES[deviceIdx]
       IN  /\ viewport' = IF StepIndex(step) > StepIndex("setViewportSize")
                          THEN [width |-> device.width, height |-> device.height]
                          ELSE viewport
           /\ respResults' = Append(respResults, DeviceFailure(device, DeviceErr(step)))
    /\ navigations' = IF StepIndex(step) >= StepIndex("goto")
                      THEN navigations + 1 ELSE navigations
    /\ deviceIdx' = Len(DEVICE_SIZES) + 1
    /\ UNCHANGED <<inputVars, pc, procVars, runVars, started, linkVars, buttonVars,
                   auditVars, outVars>>

\* responsivenessChecker.js:138-151: the await of `step` rejects; the steps
\* before it have taken effect
TestDeviceFail(step) ==
    /\ pc = "devices" /\ deviceIdx <= Len(DEVICE_SIZES)
    /\ CanFail /\ SpendFault
    /\ LET device == DEVICE_SIZES[deviceIdx]
       IN  /\ viewport' = IF StepIndex(step) > StepIndex("setViewportSize")
                          THEN [width |-> device.width, height |-> device.height]
                          ELSE viewport
           /\ respResults' = Append(respResults, DeviceFailure(device, DeviceErr(step)))
    /\ navigations' = IF StepIndex(step) >= StepIndex("goto")
                      THEN navigations + 1 ELSE navigations
    /\ deviceIdx' = deviceIdx + 1
    /\ UNCHANGED <<inputVars, pc, procVars, runVars, started, linkVars, buttonVars,
                   auditVars, outVars>>

\* responsivenessChecker.js:154-157 and runner.js:225
RespReturn ==
    /\ pc = "devices" /\ deviceIdx > Len(DEVICE_SIZES)
    /\ responsivenessResults' =
           Some([screenshotDir |-> "screenshots", results |-> respResults])
    /\ pc' = "audit"
    /\ UNCHANGED <<inputVars, faultsLeft, procVars, status, title, error,
                   brokenLinks, disabledButtons, securityAudit, started, linkVars,
                   buttonVars, pageVars, respVars, auditVars, outVars>>

----------------------------------------------------------------------------
(* modules/securityAudit.js: runSecurityAudit *)

\* A faulty InitialResults, which leaves the flag as declared; C11 must tell
\* it from the code's
InitialResults_NeverEnforced(url) ==
    [ https |-> [enforced |-> FALSE, message |-> "HTTPS is not enforced."],
      headers |-> <<>>, techExposed |-> <<>>, cookies |-> <<>>,
      openAdminPaths |-> <<>> ]

\* securityAudit.js:6-24: results as declared, after the HTTPS check
InitialResults(url) ==
    [ https |-> IF url.parsable /\ url.protocol = "https:"
                THEN [enforced |-> TRUE, message |-> "HTTPS is properly enforced."]
                ELSE [enforced |-> FALSE, message |-> "HTTPS is not enforced."],
      headers |-> <<>>, techExposed |-> <<>>, cookies |-> <<>>,
      openAdminPaths |-> <<>> ]

\* A faulty HeaderFindings, which reports the missing headers only; C10 must
\* tell it from the code's
HeaderFindings_OnlyMissing(sent) ==
    LET IsMissing(h) == h.name \notin sent
        missing == SelectSeq(importantHeaders, IsMissing)
    IN  [ i \in 1..Len(missing) |->
            [ name |-> missing[i].name, present |-> FALSE,
              message |-> <<missing[i].name, "is missing.", missing[i].description>> ] ]

\* securityAudit.js:39-46: one finding per important header, in their order;
\* sent is the set of header names of the response
HeaderFindings(sent) ==
    [ i \in 1..Len(importantHeaders) |->
        LET h == importantHeaders[i]
            exists == h.name \in sent
        IN  [ name |-> h.name, present |-> exists,
              message |-> IF exists THEN <<h.name, "is set.">>
                          ELSE <<h.name, "is missing.", h.description>> ] ]

\* securityAudit.js:50-56
TechFindings(generator) ==
    IF generator \notin {"absent", ""} THEN << <<"Page reveals technology used:", generator>> >>
    ELSE <<>>

\* securityAudit.js:61-65
RECURSIVE CookieFindings(_)
CookieFindings(cookies) ==
    IF cookies = <<>> THEN <<>>
    ELSE LET c == Head(cookies)
         IN  (IF ~c.secure \/ ~c.httpOnly
              THEN << <<"Insecure cookie", c.name>> >> ELSE <<>>)
             \o CookieFindings(Tail(cookies))

\* A faulty AdminFinding, which takes a 400 answer for an open page; C12 must
\* tell it from the code's
AdminFinding_UpTo400(path, st) ==
    IF st <= 400 THEN << <<"Open admin page found:", path>> >> ELSE <<>>

\* securityAudit.js:73-75
AdminFinding(path, st) ==
    IF st < 400 THEN << <<"Open admin page found:", path>> >> ELSE <<>>

\* runner.js:229 calls runSecurityAudit; securityAudit.js:6-24
AuditStart ==
    /\ pc = "audit"
    /\ started' = started \cup {"runSecurityAudit"}
    /\ auditResults' = InitialResults(argv.url)
    /\ adminIdx' = 1 /\ adminProbes' = <<>>
    /\ pc' = "auditGoto"
    /\ UNCHANGED <<inputVars, faultsLeft, procVars, runVars, linkVars, buttonVars,
                   pageVars, respVars, outVars>>

\* securityAudit.js:27-46
AuditGoto ==
    /\ pc = "auditGoto"
    /\ navigations' = navigations + 1
    /\ auditResults' = [auditResults EXCEPT !.headers = HeaderFindings(site.headers)]
    /\ pc' = "auditGenerator"
    /\ UNCHANGED <<inputVars, faultsLeft, procVars, runVars, started, linkVars,
                   buttonVars, viewport, respVars, adminIdx, adminProbes, outVars>>

\* securityAudit.js:27: page.goto rejects, outside any try of the auditor, and
\* the catch of runner.js:231 receives it
AuditGotoFail ==
    /\ pc = "auditGoto"
    /\ CanFail /\ SpendFault
    /\ navigations' = navigations + 1
    /\ Caught(AuditGotoMsg)
    /\ UNCHANGED <<inputVars, procVars, status, title, brokenLinks, disabledButtons,
                   responsivenessResults, securityAudit, started, linkVars,
                   buttonVars, viewport, respVars, auditVars, outVars>>

\* securityAudit.js:49-57
AuditGenerator ==
    /\ pc = "auditGenerator"
    /\ auditResults' = [auditResults EXCEPT !.techExposed = TechFindings(site.generator)]
    /\ pc' = "auditCookies"
    /\ UNCHANGED <<inputVars, faultsLeft, procVars, runVars, started, linkVars,
                   buttonVars, pageVars, respVars, adminIdx, adminProbes, outVars>>

\* securityAudit.js:57: page.$ or getAttribute rejects and the catch swallows it
AuditGeneratorFail ==
    /\ pc = "auditGenerator"
    /\ CanFail /\ SpendFault
    /\ pc' = "auditCookies"
    /\ UNCHANGED <<inputVars, procVars, runVars, started, linkVars, buttonVars,
                   pageVars, respVars, auditVars, outVars>>

\* securityAudit.js:60-65
AuditCookies ==
    /\ pc = "auditCookies"
    /\ auditResults' = [auditResults EXCEPT !.cookies = CookieFindings(site.cookies)]
    /\ pc' = "auditAdmin"
    /\ UNCHANGED <<inputVars, faultsLeft, procVars, runVars, started, linkVars,
                   buttonVars, pageVars, respVars, adminIdx, adminProbes, outVars>>

\* securityAudit.js:60: context().cookies() rejects, outside any try
AuditCookiesFail ==
    /\ pc = "auditCookies"
    /\ CanFail /\ SpendFault
    /\ Caught(CookiesMsg)
    /\ UNCHANGED <<inputVars, procVars, status, title, brokenLinks, disabledButtons,
                   responsivenessResults, securityAudit, started, linkVars,
                   buttonVars, pageVars, respVars, auditVars, outVars>>

\* securityAudit.js:69-75: the probe of commonPaths[adminIdx] is answered
AuditProbe ==
    /\ pc = "auditAdmin" /\ adminIdx <= Len(commonPaths)
    /\ navigations' = navigations + 1
    /\ auditResults' = [auditResults EXCEPT !.openAdminPaths =
           @ \o AdminFinding(commonPaths[adminIdx], site.admin[adminIdx])]
    /\ adminIdx' = adminIdx + 1
    /\ adminProbes' = Append(adminProbes,
           [path |-> commonPaths[adminIdx], answer |-> Some(site.admin[adminIdx])])
    /\ UNCHANGED <<inputVars, faultsLeft, pc, procVars, runVars, started, linkVars,
                   buttonVars, viewport, respVars, outVars>>

\* securityAudit.js:76: the probe rejects and the catch swallows it
AuditProbeFail ==
    /\ pc = "auditAdmin" /\ adminIdx <= Len(commonPaths)
    /\ CanFail /\ SpendFault
    /\ navigations' = navigations + 1
    /\ adminIdx' = adminIdx + 1
    /\ adminProbes' = Append(adminProbes,
           [path |-> commonPaths[adminIdx], answer |-> Null])
    /\ UNCHANGED <<inputVars, pc, procVars, runVars, started, linkVars, buttonVars,
                   viewport, respVars, auditResults, outVars>>

\* securityAudit.js:79 and runner.js:229
AuditReturn ==
    /\ pc = "auditAdmin" /\ adminIdx > Len(commonPaths)
    /\ securityAudit' = Some(auditResults)
    /\ pc' = "assemble"
    /\ UNCHANGED <<inputVars, faultsLeft, procVars, status, title, error,
                   brokenLinks, disabledButtons, responsivenessResults, started,
                   linkVars, buttonVars, pageVars, respVars, auditVars, outVars>>

----------------------------------------------------------------------------
(* runner.js: report, summary, cleanup *)

\* A faulty BuildReport, which reports only the failure when there is one;
\* C14 must tell it from the code's
BuildReport_OnlyError ==
    [ url |-> argv.url, domain |-> extractDomain(argv.url), label |-> argv.label,
      status |-> status, title |-> title, error |-> error,
      functionality |->
          IF IsNull(error)
          THEN [brokenLinks |-> brokenLinks, disabledButtons |-> disabledButtons]
          ELSE [brokenLinks |-> Some(<<>>), disabledButtons |-> Some(<<>>)],
      responsiveness |-> IF IsNull(error) THEN responsivenessResults ELSE Null,
      securityAudit |-> securityAudit ]

\* runner.js:242-261 (the load time, the timestamp and the report path, which
\* no check reads, are left out)
BuildReport ==
    [ url |-> argv.url, domain |-> extractDomain(argv.url), label |-> argv.label,
      status |-> status, title |-> title, error |-> error,
      functionality |-> [brokenLinks |-> brokenLinks, disabledButtons |-> disabledButtons],
      responsiveness |-> responsivenessResults,
      securityAudit |-> securityAudit ]

\* runner.js:237-261
AssembleReport ==
    /\ pc = "assemble"
    /\ report' = Some(BuildReport)
    /\ reportCount' = reportCount + 1
    /\ pc' = "write"
    /\ UNCHANGED <<inputVars, faultsLeft, procVars, runVars, started, linkVars,
                   buttonVars, pageVars, respVars, auditVars, reportFile, displayed,
                   saveLogged>>

\* runner.js:263-265
WriteReport ==
    /\ pc = "write"
    /\ reportFile' = report
    /\ pc' = "display"
    /\ UNCHANGED <<inputVars, faultsLeft, procVars, runVars, started, linkVars,
                   buttonVars, pageVars, respVars, auditVars, report, reportCount,
                   displayed, saveLogged>>

\* A faulty WriteReportFail, a write outside any try: the failure ends the
\* process; C13 must tell it from the code's
WriteReportFail_Rethrows ==
    /\ pc = "write"
    /\ CanFail /\ SpendFault
    /\ Crash
    /\ UNCHANGED <<inputVars, browser, closeCount, runVars, started, linkVars,
                   buttonVars, pageVars, respVars, auditVars, outVars>>

\* runner.js:266-268: writeFileSync throws; the failure is logged
WriteReportFail ==
    /\ pc = "write"
    /\ CanFail /\ SpendFault
    /\ saveLogged' = TRUE
    /\ pc' = "display"
    /\ UNCHANGED <<inputVars, procVars, runVars, started, linkVars, buttonVars,
                   pageVars, respVars, auditVars, report, reportCount, reportFile,
                   displayed>>

\* runner.js:271
DisplayReport ==
    /\ pc = "display"
    /\ displayed' = report
    /\ pc' = "delay"
    /\ UNCHANGED <<inputVars, faultsLeft, procVars, runVars, started, linkVars,
                   buttonVars, pageVars, respVars, auditVars, report, reportCount,
                   reportFile, saveLogged>>

\* runner.js:274
DelayElapse ==
    /\ pc = "delay"
    /\ pc' = "close"
    /\ UNCHANGED <<inputVars, faultsLeft, procVars, runVars, started, linkVars,
                   buttonVars, pageVars, respVars, auditVars, outVars>>

\* runner.js:275; the async function returns and the process ends
CloseBrowser ==
    /\ pc = "close"
    /\ browser' = "closed"
    /\ closeCount' = closeCount + 1
    /\ pc' = "done"
    /\ exitCode' = 0
    /\ UNCHANGED <<inputVars, faultsLeft, runVars, started, linkVars, buttonVars,
                   pageVars, respVars, auditVars, outVars>>

----------------------------------------------------------------------------
(* Specifications *)

\* The state when node starts runner.js with arguments a, against site s, in
\* an environment that raises at most f failures
Start(a, s, f) ==
    /\ argv = a /\ site = s /\ faultsLeft = f
    /\ pc = "args" /\ exitCode = -1 /\ browser = "none" /\ closeCount = 0
    /\ status = Null /\ title = "" /\ error = Null
    /\ brokenLinks = Some(<<>>) /\ disabledButtons = Some(<<>>)
    /\ responsivenessResults = Null /\ securityAudit = Null
    /\ started = {}
    /\ linksPc = "idle" /\ externalLinks = <<>> /\ probes = <<>> /\ linksResult = Null
    /\ buttonsPc = "idle" /\ buttonsResult = Null
    /\ viewport = [width |-> 1280, height |-> 720] /\ navigations = 0
    /\ deviceIdx = 0 /\ respResults = <<>>
    /\ auditResults = Null /\ adminIdx = 0 /\ adminProbes = <<>>
    /\ report = Null /\ reportCount = 0 /\ reportFile = Null /\ displayed = Null
    /\ saveLogged = FALSE

\* What every state between the main load and the report has in common
Running(a, s, f) ==
    /\ argv = a /\ site = s /\ faultsLeft = f
    /\ exitCode = -1 /\ browser = "open" /\ closeCount = 0
    /\ status = Some(s.status) /\ title = s.title /\ error = Null
    /\ securityAudit = Null
    /\ auditResults = Null /\ adminIdx = 0 /\ adminProbes = <<>>
    /\ report = Null /\ reportCount = 0 /\ reportFile = Null /\ displayed = Null
    /\ saveLogged = FALSE

\* The state in which runner.js:219 is reached: the main load went through
AtFunctionality(a, s, f) ==
    /\ Running(a, s, f)
    /\ pc = "functionality" /\ started = {}
    /\ brokenLinks = Some(<<>>) /\ disabledButtons = Some(<<>>)
    /\ linksPc = "idle" /\ externalLinks = <<>> /\ probes = <<>> /\ linksResult = Null
    /\ buttonsPc = "idle" /\ buttonsResult = Null
    /\ viewport = [width |-> 1280, height |-> 720] /\ navigations = 1
    /\ responsivenessResults = Null /\ deviceIdx = 0 /\ respResults = <<>>

\* What link and button checks that met no failure leave behind
Checked(a, s) ==
    LET ext == ExternalLinksOf(s, a.url)
        ps  == [i \in 1..Len(ext) |-> Answered(FALSE, ext[i], AnswerOf(s, a.url, ext[i].href))]
    IN  /\ linksPc = "done" /\ externalLinks = ext /\ probes = ps
        /\ linksResult = Some(BrokenAmong(ps)) /\ brokenLinks = linksResult
        /\ buttonsPc = "done" /\ buttonsResult = Some(DisabledEntries(s.buttons))
        /\ disabledButtons = buttonsResult

\* The state in which runner.js:225 is reached, after checks that met no failure
AtResponsiveness(a, s, f) ==
    /\ Running(a, s, f)
    /\ pc = "responsiveness" /\ started = {"checkLinks", "checkButtons"}
    /\ Checked(a, s)
    /\ viewport = [width |-> 1280, height |-> 720] /\ navigations = 1
    /\ responsivenessResults = Null /\ deviceIdx = 0 /\ respResults = <<>>

\* The state in which runner.js:229 is reached, after checks that met no failure
AtAudit(a, s, f) ==
    LET last == DEVICE_SIZES[Len(DEVICE_SIZES)]
    IN  /\ Running(a, s, f)
        /\ pc = "audit"
        /\ started = {"checkLinks", "checkButtons", "checkResponsiveness"}
        /\ Checked(a, s)
        /\ viewport = [width |-> last.width, height |-> last.height]
        /\ navigations = 1 + Len(DEVICE_SIZES)
        /\ deviceIdx = Len(DEVICE_SIZES) + 1
        /\ respResults = [i \in 1..Len(DEVICE_SIZES) |-> Metrics(s, DEVICE_SIZES[i])]
        /\ responsivenessResults =
               Some([screenshotDir |-> "screenshots", results |-> respResults])

BaseArgs(p) == [url |-> GoodUrl(p, <<"a">>), label |-> <<"a">>]

\* A whole run: any URL and label, the base site, at most MaxFaults failures
Init ==
    \E u \in Urls, l \in Labels :
        Start([url |-> u, label |-> l], BaseSite, MaxFaults)

Validation == ValidateArgs \/ MakeDirs \/ MakeDirsFail \/ CheckDomain
Launch == LaunchBrowser \/ LaunchBrowserFail \/ NewPage \/ NewPageFail
MainLoad == MainGoto \/ MainGotoFail \/ WaitLoad \/ WaitLoadFail \/ ReadTitle \/ ReadTitleFail
Links ==
    \/ LinksEval \/ LinksEvalFail \/ LinksReturn
    \/ \E i \in 1..Len(probes) :
          \/ GetRespond(i) \/ GetRaise(i) \/ HeadRespond(i)
          \/ \E msg \in RequestErrs : HeadRaise(i, msg)
Buttons == ButtonsEval \/ ButtonsEvalFail
Functionality == StartFunctionality \/ Links \/ Buttons \/ FunctionalityJoin
Responsiveness ==
    \/ RespStart \/ RespStartFail \/ TestDevice \/ RespReturn
    \/ \E k \in 1..Len(DeviceSteps) : TestDeviceFail(DeviceSteps[k])
Audit ==
    \/ AuditStart \/ AuditGoto \/ AuditGotoFail \/ AuditGenerator \/ AuditGeneratorFail
    \/ AuditCookies \/ AuditCookiesFail \/ AuditProbe \/ AuditProbeFail \/ AuditReturn
Reporting == AssembleReport \/ WriteReport \/ WriteReportFail \/ DisplayReport
Cleanup == DelayElapse \/ CloseBrowser

Next ==
    \/ Validation \/ Launch \/ MainLoad \/ Functionality \/ Responsiveness
    \/ Audit \/ Reporting \/ Cleanup

Spec == Init /\ [][Next]_vars

\* The link and button checks alone: any page of at most MaxLinks anchors,
\* and any failure
LinkSites == {[BaseSite EXCEPT !.anchors = as] : as \in AnchorSeqs}
InitLinks ==
    \E p \in Protocols, s \in LinkSites :
        AtFunctionality(BaseArgs(p), s, 2 * MaxLinks + 1)
SpecLinks == InitLinks /\ [][Functionality]_vars

\* The responsiveness check alone: pages narrower and wider than the devices,
\* with small and with readable text, and any failure
LayoutSites ==
    {[BaseSite EXCEPT !.contentWidth = w, !.minFontSize = fs] :
        w \in {1000}, fs \in {10, 16}}
InitResp ==
    \E s \in LayoutSites :
        AtResponsiveness(BaseArgs("https:"), s, Len(DEVICE_SIZES) + 1)
SpecResp == InitResp /\ [][Responsiveness]_vars

\* The security audit alone: any set of response headers, any generator tag,
\* cookies and admin-path answers, and any failure
CookieJars ==
    { <<>>, << Cookie("a", TRUE, TRUE) >>, << Cookie("a", FALSE, TRUE) >>,
      << Cookie("a", TRUE, FALSE), Cookie("b", TRUE, TRUE) >> }
AdminAnswers == [1..Len(commonPaths) -> {399, 400}]
AuditSites ==
    {[BaseSite EXCEPT !.headers = hs] : hs \in SUBSET HeaderNames}
    \cup {[BaseSite EXCEPT !.generator = g] : g \in {"absent", "", "WordPress 6.0"}}
    \cup {[BaseSite EXCEPT !.cookies = cs] : cs \in CookieJars}
    \cup {[BaseSite EXCEPT !.admin = ad] : ad \in AdminAnswers}
InitAudit ==
    \E p \in Protocols, s \in AuditSites :
        AtAudit(BaseArgs(p), s, Len(commonPaths) + 3)
SpecAudit == InitAudit /\ [][Audit]_vars

\* One run that passes validation, under the scheduling of Node's event loop:
\* as long as a continuation of the run can be taken, one is taken (every
\* await of the run settles: the navigations and requests carry timeouts, the
\* delay is a timer)
InitRun == \E p \in Protocols : Start(BaseArgs(p), BaseSite, MaxFaults)
FairRun == InitRun /\ [][Next]_vars /\ WF_vars(Next)

----------------------------------------------------------------------------
(* Properties *)

Terminal == {"done", "exited", "crashed"}
AfterAssembly == {"write", "display", "delay", "close", "done"}
AfterChecks == {"assemble"} \cup AfterAssembly
MainLoaded == "checkLinks" \in started

\* C1: after a successful main page load no failure inside a checker reaches
\* the orchestrator: the report carries no error and holds a responsiveness
\* section and a securityAudit section.
C1_ChecksNeverPropagate ==
    (~IsNull(report) /\ MainLoaded) =>
        /\ IsNull(Val(report).error)
        /\ ~IsNull(Val(report).functionality.brokenLinks)
        /\ ~IsNull(Val(report).functionality.disabledButtons)
        /\ ~IsNull(Val(report).responsiveness)
        /\ ~IsNull(Val(report).securityAudit)

\* C2: a run that got its page assembles exactly one report: never more than
\* one, none before the run has a page, one in every state after assembly, it
\* never ends or stops without one, and in the report brokenLinks and
\* disabledButtons are arrays, not null.
C2_OneReportWithArrays ==
    /\ reportCount <= 1
    /\ (reportCount = 1) = (~IsNull(report))
    /\ (pc \in AfterAssembly) = (reportCount = 1)
    /\ (pc \in {"exited", "crashed"}) => navigations = 0
    /\ (pc \notin Terminal) => ENABLED Next
    /\ ~IsNull(report) =>
          /\ ~IsNull(Val(report).functionality.brokenLinks)
          /\ ~IsNull(Val(report).functionality.disabledButtons)

\* C2 witness: a report assembled although the link extraction and a later
\* check both failed
C2_Witness ==
    /\ ~IsNull(report)
    /\ Val(report).functionality.brokenLinks = GeneralError(EvalErr)
    /\ Val(report).error = Some(AuditGotoMsg)

\* C3: when the main page load has failed, no checker is ever started, the run
\* is at or past report assembly, and the report carries the failure message,
\* empty brokenLinks and disabledButtons, the status if the response had
\* arrived (null otherwise) and the empty title.
C3_MainLoadFailureSkipsChecks ==
    (~IsNull(error) /\ Val(error) \in MainLoadMsgs) =>
        /\ started = {}
        /\ pc \in AfterChecks
        /\ linksPc = "idle" /\ buttonsPc = "idle" /\ deviceIdx = 0 /\ IsNull(auditResults)
        /\ (pc \in AfterAssembly) =>
              /\ ~IsNull(report)
              /\ Val(report).error = error
              /\ Val(report).functionality.brokenLinks = Some(<<>>)
              /\ Val(report).functionality.disabledButtons = Some(<<>>)
              /\ Val(report).status =
                    (IF Val(error) = GotoMsg THEN Null ELSE Some(site.status))
              /\ Val(report).title = ""
              /\ IsNull(Val(report).responsiveness)
              /\ IsNull(Val(report).securityAudit)

\* C3 witness: the report of a run whose load failed after the response came
C3_Witness ==
    /\ ~IsNull(report)
    /\ Val(report).error = Some(WaitLoadMsg)
    /\ Val(report).status = Some(200)

\* C4: once checkResponsiveness has been called, checkLinks and checkButtons
\* have returned and no GET or HEAD is in flight; once runSecurityAudit has
\* been called, checkResponsiveness has returned; and after the checks have
\* begun no step changes the viewport or navigates while a link probe or the
\* button scan is still running.
NoCheckRunning ==
    /\ linksPc = "done" /\ buttonsPc = "done"
    /\ \A i \in 1..Len(probes) : probes[i].settled /\ ~ProbeInFlight(probes[i])
C4_PhaseOrder ==
    /\ ("checkResponsiveness" \in started) => NoCheckRunning
    /\ ("runSecurityAudit" \in started) =>
          /\ ~IsNull(responsivenessResults)
          /\ deviceIdx = 7
C4_NoOverlap ==
    (MainLoaded /\ (viewport' # viewport \/ navigations' # navigations))
        => NoCheckRunning
C4_ChecksBeforeLaterPhases == [](C4_PhaseOrder) /\ [][C4_NoOverlap]_vars

\* C4 witness: the third device is about to be tested after a link needed its
\* HEAD request
C4_Witness ==
    /\ pc = "devices" /\ deviceIdx = 3
    /\ Len(probes) = 2 /\ probes[1].head = "responded"

\* C5: the responsiveness results hold one entry per device profile, in the
\* profile order, whatever per-device step failed: while the loop runs the
\* entries so far are those of the first profiles; an entry of a failed device
\* holds device, viewport, error and timestamp only; and the loop ends with
\* six entries, which are the results returned.
ProfileOrder ==
    << "Mobile Portrait", "Mobile Landscape", "Tablet Portrait",
       "Tablet Landscape", "Laptop", "Desktop" >>
EntryShapeOk(e) ==
    IF "error" \in DOMAIN e
    THEN DOMAIN e = {"device", "viewport", "error", "timestamp"}
    ELSE {"device", "viewport", "status", "screenshotPath"} \subseteq DOMAIN e
C5_SixEntriesInProfileOrder ==
    /\ Len(respResults) <= 6
    /\ \A i \in 1..Len(respResults) :
          /\ respResults[i].device = ProfileOrder[i]
          /\ EntryShapeOk(respResults[i])
    /\ (pc = "devices") => Len(respResults) = deviceIdx - 1
    /\ (pc = "audit") =>
          /\ ~IsNull(responsivenessResults)
          /\ Len(Val(responsivenessResults).results) = 6
          /\ Val(responsivenessResults).results = respResults
    /\ (pc \notin {"responsiveness", "devices", "audit"}) => error = Some(MkdirMsg)

\* C5 witness: results returned with the first and the last device failed and
\* the third tested
C5_Witness ==
    /\ ~IsNull(responsivenessResults)
    /\ "error" \in DOMAIN Val(responsivenessResults).results[1]
    /\ "status" \in DOMAIN Val(responsivenessResults).results[3]
    /\ "error" \in DOMAIN Val(responsivenessResults).results[6]

\* C6: on a page whose anchors are all internal (no href attribute beginning
\* with http:// or https://) checkLinks issues no request, and what it returns
\* after reading the anchors is empty, whatever the internal links answer.
\* (The synthetic general_error entry of a failed extraction is left aside.)
IsInternalAnchor(a) ==
    ~(StartsWith(a.attr, <<"http://">>) \/ StartsWith(a.attr, <<"https://">>))
OnlyInternalAnchors == \A i \in 1..Len(site.anchors) : IsInternalAnchor(site.anchors[i])
C6_InternalLinksNeverProbed ==
    OnlyInternalAnchors =>
        /\ probes = <<>>
        /\ (linksPc = "done" /\ linksResult # GeneralError(EvalErr))
              => linksResult = Some(<<>>)

\* C7: the browser is launched only when the host name of the URL, with a
\* leading "www." removed, is in the allow-list; every other run exits with
\* status 1, with no browser and no report written.
StripLeadingWww(h) == IF StartsWith(h, WwwDot) THEN SubSeq(h, Len(WwwDot) + 1, Len(h)) ELSE h
HostAllowListed ==
    argv.url.parsable /\ StripLeadingWww(argv.url.hostname) \in allowedDomains
C7_OnlyAllowListedHostsReachBrowser ==
    /\ (browser # "none") => HostAllowListed
    /\ (pc \notin {"args", "mkdirs", "domain"} /\ ~HostAllowListed) =>
          pc = "exited" /\ exitCode = 1 /\ browser = "none" /\ IsNull(reportFile)

\* C8: for every external link the HEAD is issued only after the GET raised;
\* once the probe is settled it yields an entry with the numeric status, whose
\* error string holds that status, iff the response obtained has status >= 400,
\* an entry with status 'failed' iff GET and HEAD both raised, and nothing iff
\* the response obtained has status < 400; and checkLinks returns exactly the
\* entries yielded.
Responded(p) == p.get = "responded" \/ p.head = "responded"
BothRaised(p) == p.get = "raised" /\ p.head = "raised"
ServedStatus(i) == AnswerOf(site, argv.url, externalLinks[i].href)
C8_ProbeOk(i) ==
    LET p == probes[i]
    IN  /\ p.get # "none"
        /\ (p.head # "none") => p.get = "raised"
        /\ p.settled = (Responded(p) \/ BothRaised(p))
        /\ p.settled =>
              /\ (~IsNull(p.result) /\ Val(p.result).status = NumStatus(ServedStatus(i))
                     /\ Includes(Val(p.result).error, Decimal(ServedStatus(i))))
                 = (Responded(p) /\ ServedStatus(i) >= 400)
              /\ (~IsNull(p.result) /\ Val(p.result).status = FailedStatus)
                 = BothRaised(p)
              /\ IsNull(p.result) = (Responded(p) /\ ServedStatus(i) < 400)
              /\ ~IsNull(p.result) => Val(p.result).href = externalLinks[i].href
C8_GetThenHeadClassification ==
    /\ Len(probes) = Len(externalLinks) \/ linksPc \in {"idle", "eval"}
    /\ \A i \in 1..Len(probes) : C8_ProbeOk(i)
    /\ (linksPc = "done" /\ linksResult # GeneralError(EvalErr)) =>
          LET yielded == {i \in 1..Len(probes) : ~IsNull(probes[i].result)}
          IN  /\ Len(Val(linksResult)) = Cardinality(yielded)
              /\ \A i \in yielded :
                    \E k \in 1..Len(Val(linksResult)) :
                        Val(linksResult)[k] = Val(probes[i].result)

\* C8 witness: checkLinks has returned after one link failed both requests
\* and another answered its HEAD with a status >= 400
C8_Witness ==
    /\ linksPc = "done" /\ Len(probes) = 2
    /\ BothRaised(probes[1])
    /\ probes[2].head = "responded" /\ ~IsNull(probes[2].result)

\* C9: whatever step of the security audit fails, runSecurityAudit returns a
\* result and all its checks are made: once the run is past the audit, the
\* securityAudit section is there and every admin path was probed.
C9_AuditStepsDegradeIndependently ==
    ("runSecurityAudit" \in started /\ pc \in AfterChecks) =>
        /\ ~IsNull(securityAudit)
        /\ adminIdx = Len(commonPaths) + 1

\* C10: a security audit result holds six header findings, in the order
\* strict-transport-security, content-security-policy, x-frame-options,
\* x-content-type-options, referrer-policy, permissions-policy, and present
\* is true exactly for the headers the response carries.
HeaderOrder ==
    << "strict-transport-security", "content-security-policy", "x-frame-options",
       "x-content-type-options", "referrer-policy", "permissions-policy" >>
C10_SixHeaderFindings ==
    ~IsNull(securityAudit) =>
        LET hs == Val(securityAudit).headers
        IN  /\ Len(hs) = 6
            /\ \A i \in 1..6 :
                  /\ hs[i].name = HeaderOrder[i]
                  /\ hs[i].present = (HeaderOrder[i] \in site.headers)

\* C10 witness: a result for a response carrying the first header, not the
\* second, and a header outside the list
C10_Witness ==
    /\ ~IsNull(securityAudit)
    /\ "content-type" \in site.headers
    /\ Val(securityAudit).headers[1].present
    /\ ~Val(securityAudit).headers[2].present

\* C11: https.enforced is decided by the scheme of the target URL alone: true
\* for an https URL, false for an http URL and false for a URL that does not
\* parse, from the moment the audit starts to the result it returns, whatever
\* headers, generator tag, cookies and admin pages the site serves and
\* whichever steps fail.
C11_HttpsFromSchemeOnly ==
    /\ ~InitialResults(BadUrl).https.enforced
    /\ \A h \in Hosts :
          /\ InitialResults(GoodUrl("https:", h)).https.enforced
          /\ ~InitialResults(GoodUrl("http:", h)).https.enforced
    /\ ("runSecurityAudit" \in started) =>
          auditResults.https.enforced = (argv.url.protocol = "https:")
    /\ ~IsNull(securityAudit) =>
          Val(securityAudit).https.enforced = (argv.url.protocol = "https:")

\* C11 witness: an audit of an https URL returned enforced although the
\* response carried no strict-transport-security header and a cookie was not
\* secure
C11_Witness ==
    /\ ~IsNull(securityAudit)
    /\ argv.url.protocol = "https:"
    /\ Val(securityAudit).https.enforced
    /\ "strict-transport-security" \notin site.headers
    /\ Val(securityAudit).cookies # <<>>

\* C12: the audit requests /admin, /login, /dashboard, /wp-admin one after
\* another in that order; a request that fails adds nothing and the next path
\* is still requested; the result the audit returns was built after all four
\* requests, and its openAdminPaths names, in that order, exactly the paths
\* whose request was answered with a status below 400.
AdminPathOrder == << "/admin", "/login", "/dashboard", "/wp-admin" >>
AnsweredOpen(p) == ~IsNull(p.answer) /\ Val(p.answer) < 400
PathsNamed(findings) == [i \in 1..Len(findings) |-> findings[i][2]]
PathsOpen(ps) ==
    LET open == SelectSeq(ps, AnsweredOpen)
    IN  [i \in 1..Len(open) |-> open[i].path]
C12_AdminPathsInOrder ==
    /\ Len(adminProbes) <= 4
    /\ \A i \in 1..Len(adminProbes) : adminProbes[i].path = AdminPathOrder[i]
    /\ ("runSecurityAudit" \in started) =>
          PathsNamed(auditResults.openAdminPaths) = PathsOpen(adminProbes)
    /\ (pc = "auditAdmin" /\ Len(adminProbes) < 4) => ENABLED AuditProbe
    /\ ~IsNull(securityAudit) =>
          /\ Len(adminProbes) = 4
          /\ PathsNamed(Val(securityAudit).openAdminPaths) = PathsOpen(adminProbes)

\* C12 witness: a result naming /login and /wp-admin, where the request for
\* /admin failed and /dashboard answered 400
C12_Witness ==
    /\ ~IsNull(securityAudit)
    /\ IsNull(adminProbes[1].answer)
    /\ adminProbes[2].answer = Some(399)
    /\ adminProbes[3].answer = Some(400)
    /\ adminProbes[4].answer = Some(399)
    /\ PathsNamed(Val(securityAudit).openAdminPaths) = << "/login", "/wp-admin" >>

\* C13: a run that holds its browser and its page (browser.newPage has
\* resolved, the run is in or past the try block) always goes on to Cleanup
\* and releases the browser.  The browser is closed once and only once, at the end
\* of the run; it is closed only after the delay, the delay starts only after
\* the summary was displayed, and the summary shows the report as assembled;
\* the report never changes once assembled; report.json holds the report or,
\* when the write failed, nothing, and then the failure was logged.  This
\* holds whether the main load, a check or the write failed.
HasPage == browser = "open" /\ pc \notin {"newPage", "crashed"}
Released == pc = "done" /\ browser = "closed" /\ closeCount = 1
C13_Cleanup ==
    /\ closeCount <= 1
    /\ (browser = "closed") = (closeCount = 1)
    /\ (closeCount = 1) = (pc = "done")
    /\ (pc \in {"delay", "close", "done"}) =>
          /\ ~IsNull(report) /\ displayed = report
          /\ saveLogged = IsNull(reportFile)
          /\ ~saveLogged => reportFile = report
    /\ saveLogged => IsNull(reportFile)
C13_Step ==
    /\ (pc' = "close" /\ pc # "close") => pc = "delay"
    /\ (pc' = "delay" /\ pc # "delay") => pc = "display"
    /\ (closeCount' # closeCount) => (pc = "close" /\ closeCount' = closeCount + 1)
    /\ ~IsNull(report) => report' = report
C13_EveryRunReachesCleanup ==
    /\ [](C13_Cleanup)
    /\ [][C13_Step]_vars
    /\ HasPage ~> Released

\* C13 witness: the browser released at the end of a run in which a check
\* failed and the report could not be written, the summary showing the report
C13_Witness ==
    /\ Released
    /\ ~IsNull(error) /\ Val(error) \notin MainLoadMsgs
    /\ saveLogged /\ IsNull(reportFile)
    /\ displayed = report /\ Val(displayed).error = error

\* C14: in the report, error is null exactly when the securityAudit section is
\* there, and a securityAudit section comes with a responsiveness section.  A
\* failure leaves in the report what the phases before it obtained: once the
\* main load went through, the status and the title of the page; once the
\* link and button checks returned, their results; once the responsiveness
\* check returned, its six entries; and when the audit returned, its result.
C14_SectionsInPhaseOrder ==
    ~IsNull(report) =>
        LET r == Val(report)
        IN  /\ IsNull(r.error) = ~IsNull(r.securityAudit)
            /\ ~IsNull(r.securityAudit) => ~IsNull(r.responsiveness)
            /\ ~IsNull(r.responsiveness) => "checkResponsiveness" \in started
            /\ MainLoaded =>
                  r.status = Some(site.status) /\ r.title = site.title
            /\ ("checkResponsiveness" \in started) =>
                  /\ ~IsNull(linksResult) /\ ~IsNull(buttonsResult)
                  /\ r.functionality.brokenLinks = linksResult
                  /\ r.functionality.disabledButtons = buttonsResult
            /\ ("runSecurityAudit" \in started) =>
                  /\ ~IsNull(r.responsiveness)
                  /\ Val(r.responsiveness).results = respResults
                  /\ Len(respResults) = Len(DEVICE_SIZES)
            /\ ~IsNull(r.securityAudit) => Val(r.securityAudit) = auditResults

\* C14 witness: a report whose error is the audit's failed cookie read, with
\* no securityAudit section, and with the broken link, the disabled button and
\* the responsiveness entries found before
C14_Witness ==
    /\ ~IsNull(report)
    /\ Val(report).error = Some(CookiesMsg)
    /\ IsNull(Val(report).securityAudit)
    /\ ~IsNull(Val(report).responsiveness)
    /\ Val(Val(report).functionality.brokenLinks) # <<>>
    /\ Val(Val(report).functionality.disabledButtons) # <<>>
    /\ Val(report).status = Some(200)

====
